---- MODULE Spec2Model ----
(***************************************************************************)
(* State-machine model of the client-side session transport of opcode:     *)
(*   - WebSocketSessionManager   (src/src/lib/wsSessionManager.ts)         *)
(*   - NetworkStatusManager and handleStreamingCommand (apiAdapter,        *)
(*     src/unnamed/part_001)                                               *)
(* Every action is one turn of the browser's event loop: a call made by    *)
(* the UI, a transport event with all the listeners it runs, or a timer    *)
(* callback.  The operators below take and return a "world" record that    *)
(* holds the whole program state, so that a handler's calls compose in the *)
(* order the code makes them.                                              *)
(***************************************************************************)
EXTENDS Integers, Sequences, FiniteSets, TLC

VARIABLES
  conns,              \* every WSSession object ever created, by creation order
  registry,           \* globalState.sessions: tab -> index in conns, 0 = no entry
  reconnectAttempts,  \* globalState.reconnectAttempts (absent entry read as 0)
  timers,             \* pending reconnect timers of attemptReconnect
  disp,               \* every handleStreamingCommand call, by call order
  net,                \* the NetworkStatusManager singleton
  sends,              \* every wsManager.send call, by call order
  health,             \* the interval timers and the /api/health probes of the health check
  module,             \* the JavaScript realm: the registry objects and the executions of wsSessionManager.ts
  browser,            \* sessionStorage of the browser tab and the page loads
  pendingClose,       \* connection whose error event ran and whose close event follows in the same task
  unreg,              \* unregister functions registerHandler returned to callers other than dispatches
  unsub,              \* unsubscribe functions subscribe returned
  lastReturned,       \* history: connection last returned by getOrCreateSession per tab, 0 after close
  closedEntry,        \* history: registry entry that got a close event, until the tab's next getOrCreateSession or close
  abnormalCloses,     \* history: abnormal close events per tab since the tab's last open event
  reconnectCreated    \* history: connections the reconnect timers created per tab since the tab's last open event

vars == <<conns, registry, reconnectAttempts, timers, disp, net, sends, health, module, browser,
          pendingClose,
          unreg, unsub, lastReturned, closedEntry, abnormalCloses, reconnectCreated>>

----------------------------------------------------------------------------
(* Bounds of the model *)

(* ManagerSpec: connections created *)
MaxSessions == 4

(* Spec: handleStreamingCommand calls, and connections created *)
MaxDispatch == 1
MaxDispatchSessions == 2

(* RedispatchSpec: handleStreamingCommand calls, and connections created *)
MaxRedispatch == 2
MaxRedispatchSessions == 2

(* HandlerSpec: connections created, and the handlers of callers other than *)
(* handleStreamingCommand, each registered once                             *)
MaxHandlerSessions == 2
ObserverIds == {1, 2}

(* observers whose handler throws on every message *)
ThrowingObservers == {1}

(* SendSpec: wsManager.send calls, and connections created *)
MaxSends == 2
MaxSendSessions == 2

(* TabsSpec: connections created, over all tabs *)
MaxTabsSessions == 3

(* NetSpec: status changes, and the callbacks that subscribe *)
MaxChanges == 52
CallbackIds == {1, 2}

(* HealthSpec: setInterval calls, probes awaiting their response, status changes *)
MaxIntervals == 2
MaxInflight == 2
MaxHealthChanges == 6

(* ReconnectSpec: connections ever created *)
MaxReconnectSessions == 6

(* OrderSpec: connections ever created *)
MaxOrderSessions == 2

(* module re-execution: connections ever created, executions of wsSessionManager.ts *)
MaxReexecSessions == 2
MaxExecutions == 3

(* page reloads: dispatches and connections per page, reloads of the tab *)
MaxReloadDispatch == 1
MaxReloadSessions == 1
MaxReloads == 1

(* the tabs of the application, and the tab the single-tab specifications drive *)
AllTabIds == {"t1", "t2"}
TabIds == {"t1"}

(* params.sessionId || getPersistentSessionId(): one stored identifier *)
SessionIds == {"p1"}

(* sessionId?: string left undefined *)
NoSessionId == ""

----------------------------------------------------------------------------
(* Program constants *)

MAX_RECONNECT_ATTEMPTS == 3
RECONNECT_DELAY == 1000
maxHistoryLength == 50

(* WebSocket.readyState *)
CONNECTING == 0
OPEN == 1
CLOSING == 2
CLOSED == 3

(* CloseEvent.code values the transport can report *)
CloseCodes == {1000, 1001, 1006, 1011}

(* the value JSON.parse gives for the text null *)
Null == [null |-> TRUE]

(* the texts JSON.parse accepts among the content strings of output frames *)
JSONTexts == { "{\"type\":\"assistant\"}" }

(* whether JSON.parse(text) returns instead of throwing *)
JSONParses(text) == text \in JSONTexts

(* Inbound text frames: valid says whether JSON.parse succeeds, msg is the parsed value; *)
(* an output frame has a content string that parses, one that does not, or no string   *)
Frames ==
  { [valid |-> TRUE, msg |-> [type |-> "output"]],
    [valid |-> TRUE, msg |-> [type |-> "output", content |-> "{\"type\":\"assistant\"}"]],
    [valid |-> TRUE, msg |-> [type |-> "output", content |-> "{bad"]],
    [valid |-> TRUE, msg |-> [type |-> "completion", status |-> "success", error |-> ""]],
    [valid |-> TRUE, msg |-> [type |-> "completion", status |-> "failure", error |-> "e1"]],
    [valid |-> TRUE, msg |-> [type |-> "completion", status |-> "failure", error |-> ""]],
    [valid |-> TRUE, msg |-> [type |-> "error", message |-> "m1"]],
    [valid |-> TRUE, msg |-> [type |-> "error", message |-> ""]],
    [valid |-> TRUE, msg |-> Null],
    [valid |-> FALSE] }

----------------------------------------------------------------------------
(* JavaScript Set<T>, which iterates in insertion order, as a sequence without repetition *)

SetHas(set, x) == \E i \in 1..Len(set) : set[i] = x

SetAdd(set, x) == IF SetHas(set, x) THEN set ELSE Append(set, x)

SetDelete(set, x) == SelectSeq(set, LAMBDA y : y # x)

(* adding the elements of xs last to first *)
RECURSIVE SetAddAllReversed(_, _)
SetAddAllReversed(set, xs) ==
  IF xs = <<>> THEN set ELSE SetAdd(SetAddAllReversed(set, Tail(xs)), Head(xs))

(* xs.forEach(x => set.add(x)) *)
RECURSIVE SetAddAll(_, _)
SetAddAll(set, xs) ==
  IF xs = <<>> THEN set ELSE SetAddAll(SetAdd(set, Head(xs)), Tail(xs))

(* a || b on strings: the empty string is falsy *)
OrElse(a, b) == IF a = "" THEN b ELSE a

----------------------------------------------------------------------------
(* Session persistence *)

(* the values Date.now() and Math.random() can give to a call *)
Draws == {1, 2}

(* `session-${Date.now()}` for each draw *)
TempIds == << "session-1", "session-2" >>

(* `session-${Date.now()}-${Math.random().toString(36).substr(2, 9)}` for each draw *)
FreshIds == << "session-1-a", "session-2-b" >>

NewBrowser(available) ==
  [ available      |-> available,   \* typeof sessionStorage !== 'undefined'
    sessionStorage |-> "",          \* sessionStorage.getItem(SESSION_STORAGE_KEY), "" for null
    returned       |-> "",          \* what the last call of getPersistentSessionId returned
    used           |-> {},          \* history: every value getPersistentSessionId returned in this tab
    calls          |-> 0,           \* history: calls of getPersistentSessionId in this tab
    loads          |-> 0 ]          \* history: page reloads of this tab

(* getPersistentSessionId that never reads the stored value *)
getPersistentSessionIdAlwaysNew(w, draw) ==
  [w EXCEPT !.browser.sessionStorage = FreshIds[draw],
            !.browser.returned = FreshIds[draw],
            !.browser.used = @ \cup {FreshIds[draw]},
            !.browser.calls = @ + 1]

(* The value returned is browser.returned of the world returned *)
getPersistentSessionId(w, draw) ==
  IF ~w.browser.available
    THEN [w EXCEPT !.browser.returned = TempIds[draw],
                   !.browser.used = @ \cup {TempIds[draw]},
                   !.browser.calls = @ + 1]
  ELSE IF w.browser.sessionStorage = ""
    THEN [w EXCEPT !.browser.sessionStorage = FreshIds[draw],
                   !.browser.returned = FreshIds[draw],
                   !.browser.used = @ \cup {FreshIds[draw]},
                   !.browser.calls = @ + 1]
    ELSE [w EXCEPT !.browser.returned = w.browser.sessionStorage,
                   !.browser.used = @ \cup {w.browser.sessionStorage},
                   !.browser.calls = @ + 1]

----------------------------------------------------------------------------
(* NetworkStatusManager *)

(* the singleton after construction; clock is the logical time Date.now() reads *)
NewNetworkStatusManager ==
  [ currentStatus |-> "disconnected",
    listeners     |-> <<>>,
    statusHistory |-> <<>>,
    clock         |-> 0,
    healthCheckInterval |-> 0 ]      \* the handle setInterval returned, 0 = null

(* the timers of the health check: the interval timers that were created and    *)
(* not cleared, the number of setInterval calls, the probes awaiting a response *)
NewHealth == [ intervals |-> {}, created |-> 0, inflight |-> 0 ]

(* addToHistory that keeps the first maxHistoryLength entries *)
addToHistoryKeepOldest(n, status) ==
  LET now == n.clock + 1
      pushed == Append(n.statusHistory, [status |-> status, timestamp |-> now])
  IN [n EXCEPT !.clock = now,
               !.statusHistory = IF Len(pushed) > maxHistoryLength
                                   THEN SubSeq(pushed, 1, maxHistoryLength)
                                   ELSE pushed]

(* statusHistory.push({status, timestamp: Date.now()}), then slice(-maxHistoryLength) *)
addToHistory(n, status) ==
  LET now == n.clock + 1
      pushed == Append(n.statusHistory, [status |-> status, timestamp |-> now])
  IN [n EXCEPT !.clock = now,
               !.statusHistory = IF Len(pushed) > maxHistoryLength
                                   THEN SubSeq(pushed, Len(pushed) - maxHistoryLength + 1,
                                               Len(pushed))
                                   ELSE pushed]

(* listeners.forEach(callback => callback(status)) *)
notifyListeners(w, status) ==
  [w EXCEPT !.notified = @ \o [i \in 1..Len(w.net.listeners) |->
                                 [callback |-> w.net.listeners[i], status |-> status]]]

(* setStatus that records the status it replaces *)
setStatusRecordsPrevious(w, status) ==
  IF w.net.currentStatus = status
    THEN w
    ELSE notifyListeners([w EXCEPT !.net = addToHistory([@ EXCEPT !.currentStatus = status],
                                                        w.net.currentStatus)],
                         status)

(* setStatus without the comparison with the current status *)
setStatusAlways(w, status) ==
  notifyListeners([w EXCEPT !.net = addToHistory([@ EXCEPT !.currentStatus = status], status)],
                  status)

(* networkStatusManager.setStatus(status) *)
setStatus(w, status) ==
  IF w.net.currentStatus = status
    THEN w
    ELSE notifyListeners([w EXCEPT !.net = addToHistory([@ EXCEPT !.currentStatus = status],
                                                        status)],
                         status)

(* networkStatusManager.reset() *)
reset(w) == setStatus(w, "disconnected")

(* subscribe without the immediate call of the callback *)
subscribeSilent(w, callback) ==
  [w EXCEPT !.net.listeners = SetAdd(@, callback)]

(* networkStatusManager.subscribe(callback) *)
subscribe(w, callback) ==
  [w EXCEPT !.net.listeners = SetAdd(@, callback),
            !.notified = Append(@, [callback |-> callback, status |-> w.net.currentStatus])]

(* the function subscribe(callback) returned *)
unsubscribe(w, callback) ==
  [w EXCEPT !.net.listeners = SetDelete(@, callback)]

(* what fetch('/api/health') can come to: response.ok, a response that is not ok, a rejection *)
ProbeOutcomes == {"ok", "notok", "failed"}

(* performHealthCheck up to `await fetch(...)` *)
issueProbe(w) == [w EXCEPT !.health.inflight = @ + 1]

(* performHealthCheck that takes every response for a healthy server *)
performHealthCheckAlwaysConnected(w, outcome) ==
  IF outcome = "failed"
    THEN IF w.net.currentStatus \in {"connected", "connecting"}
           THEN setStatus(w, "disconnected")
           ELSE w
    ELSE setStatus(w, "connected")

(* performHealthCheck after `await fetch(...)`, with the outcome of the fetch *)
performHealthCheck(w, outcome) ==
  IF outcome = "ok"
    THEN IF w.net.currentStatus \in {"disconnected", "error"}
           THEN setStatus(w, "connected")
           ELSE w
  ELSE IF outcome = "notok"
    THEN IF w.net.currentStatus = "disconnected"
           THEN setStatus(w, "error")
           ELSE w
  ELSE IF w.net.currentStatus \in {"connected", "connecting"}
    THEN setStatus(w, "disconnected")
    ELSE w

(* startHealthCheck without the test of healthCheckInterval *)
startHealthCheckUnguarded(w) ==
  LET id == w.health.created + 1
  IN [issueProbe(w) EXCEPT !.health.created = id,
                           !.health.intervals = @ \cup {id},
                           !.net.healthCheckInterval = id]

(* startHealthCheck: the first probe, then setInterval(performHealthCheck, 3000) *)
startHealthCheck(w) ==
  IF w.net.healthCheckInterval # 0
    THEN w
    ELSE LET id == w.health.created + 1
         IN [issueProbe(w) EXCEPT !.health.created = id,
                                  !.health.intervals = @ \cup {id},
                                  !.net.healthCheckInterval = id]

stopHealthCheck(w) ==
  IF w.net.healthCheckInterval # 0
    THEN [w EXCEPT !.health.intervals = @ \ {w.net.healthCheckInterval},
                   !.net.healthCheckInterval = 0]
    ELSE w

isHealthCheckRunning(w) == w.net.healthCheckInterval # 0

(* window.dispatchEvent(new CustomEvent(name, {detail})) issued by dispatch d *)
Emit(w, name, detail, d) ==
  [w EXCEPT !.emitted = Append(@, [event |-> name, detail |-> detail, by |-> d])]

----------------------------------------------------------------------------
(* WebSocketSessionManager *)

(* `{ sessions: new Map(), reconnectAttempts: new Map() }` *)
NewGlobalState ==
  [ sessions          |-> [t \in AllTabIds |-> 0],
    reconnectAttempts |-> [t \in AllTabIds |-> 0] ]

(* executing wsSessionManager.ts with a fresh registry object every time *)
moduleExecuteFresh(w) ==
  LET object == w.module.objects + 1
  IN [w EXCEPT !.module = [ globalState |-> object, stored |-> object, objects |-> object,
                            executions |-> w.module.executions + 1 ],
               !.registry = NewGlobalState.sessions,
               !.reconnectAttempts = NewGlobalState.reconnectAttempts]

(* Executing wsSessionManager.ts. The registry objects are numbered by creation; *)
(* registry and reconnectAttempts hold the maps of the object that the constant  *)
(* globalState of the module instance executed last refers to.                   *)
moduleExecute(w) ==
  IF w.module.stored # 0
    THEN [w EXCEPT !.module.globalState = w.module.stored,
                   !.module.executions = @ + 1]
    ELSE LET object == w.module.objects + 1
         IN [w EXCEPT !.module = [ globalState |-> object, stored |-> object, objects |-> object,
                                   executions |-> w.module.executions + 1 ],
                      !.registry = NewGlobalState.sessions,
                      !.reconnectAttempts = NewGlobalState.reconnectAttempts]

(* the realm after the first execution of wsSessionManager.ts *)
NewModule ==
  moduleExecute([ module |-> [ globalState |-> 0, stored |-> 0, objects |-> 0, executions |-> 0 ],
                  registry |-> NewGlobalState.sessions,
                  reconnectAttempts |-> NewGlobalState.reconnectAttempts ]).module

NewSession(tabId, sessionId) ==
  [ tab         |-> tabId,
    sessionId   |-> sessionId,               \* the sessionId the listeners close over
    id          |-> OrElse(sessionId, tabId),
    readyState  |-> CONNECTING,              \* new WebSocket(wsUrl)
    established |-> FALSE,                   \* transport: the opening handshake completed
    handlers    |-> <<>>,
    isConnected |-> FALSE,
    isStale     |-> FALSE,
    closeCode   |-> 0,                       \* transport: code of the closing handshake in progress
    listeners   |-> <<>> ]                   \* dispatches whose open/error/close listeners are on ws

createSession(w, tabId, sessionId) ==
  [w EXCEPT !.conns = Append(@, NewSession(tabId, sessionId))]

(* needsNewSession that only looks for a missing entry *)
needsNewSessionOnlyMissing(w, tabId) == w.registry[tabId] = 0

needsNewSession(w, tabId) ==
  LET session == w.registry[tabId]
  IN \/ session = 0
     \/ w.conns[session].isStale
     \/ w.conns[session].readyState = CLOSED

(* The connection returned is the registry entry of tabId in the world returned *)
getOrCreateSession(w, tabId, sessionId) ==
  IF needsNewSession(w, tabId)
    THEN LET old == w.registry[tabId]
             oldHandlers == IF old # 0 THEN w.conns[old].handlers ELSE <<>>
             w1 == createSession(w, tabId, sessionId)
             new == Len(w1.conns)
         IN [w1 EXCEPT !.conns[new].handlers = SetAddAll(@, oldHandlers),
                       !.registry[tabId] = new]
    ELSE w

(* attemptReconnect with a delay that doubles with every attempt *)
attemptReconnectExponential(w, from, tabId, sessionId) ==
  LET attempts == w.reconnectAttempts[tabId] + 1
  IN IF attempts > MAX_RECONNECT_ATTEMPTS
       THEN w
       ELSE [w EXCEPT !.reconnectAttempts[tabId] = attempts,
                      !.timers = @ \cup { [ from      |-> from,
                                            tab       |-> tabId,
                                            sessionId |-> sessionId,
                                            attempt   |-> attempts,
                                            delay     |-> RECONNECT_DELAY * 2 ^ (attempts - 1) ] }]

attemptReconnect(w, from, tabId, sessionId) ==
  LET attempts == w.reconnectAttempts[tabId] + 1
  IN IF attempts > MAX_RECONNECT_ATTEMPTS
       THEN w
       ELSE [w EXCEPT !.reconnectAttempts[tabId] = attempts,
                      !.timers = @ \cup { [ from      |-> from,
                                            tab       |-> tabId,
                                            sessionId |-> sessionId,
                                            attempt   |-> attempts,
                                            delay     |-> RECONNECT_DELAY * attempts ] }]

(* registerHandler that adds the handler to the connection of every tab *)
registerHandlerEverywhere(w, tabId, handler) ==
  LET w1 == getOrCreateSession(w, tabId, NoSessionId)
  IN [w1 EXCEPT !.conns = [s \in 1..Len(w1.conns) |->
                             IF \E t \in AllTabIds : w1.registry[t] = s
                               THEN [w1.conns[s] EXCEPT !.handlers = SetAdd(@, handler)]
                               ELSE w1.conns[s]]]

(* registerHandler(tabId, handler); the unregister closure keeps the session it returns *)
registerHandler(w, tabId, handler) ==
  LET w1 == getOrCreateSession(w, tabId, NoSessionId)
      session == w1.registry[tabId]
  IN [w1 EXCEPT !.conns[session].handlers = SetAdd(@, handler)]

----------------------------------------------------------------------------
(* handleStreamingCommand: the closures of one call, d its index in disp *)

(* `WebSocket connection timeout (state=${session.ws.readyState}) - failed ...` *)
TimeoutError(readyState) ==
  << "WebSocket connection timeout (state=0) - failed to establish connection within 5 seconds",
     "WebSocket connection timeout (state=1) - failed to establish connection within 5 seconds",
     "WebSocket connection timeout (state=2) - failed to establish connection within 5 seconds",
     "WebSocket connection timeout (state=3) - failed to establish connection within 5 seconds"
  >>[readyState + 1]

(* 'WebSocket connection failed - state: ' + session.ws.readyState *)
StateError(readyState) ==
  << "WebSocket connection failed - state: 0",
     "WebSocket connection failed - state: 1",
     "WebSocket connection failed - state: 2",
     "WebSocket connection failed - state: 3" >>[readyState + 1]

ConnectionError == "WebSocket connection failed"

(* the messages of the send-timeout and of the failed state check *)
TimeoutErrors == { TimeoutError(readyState) : readyState \in {CONNECTING, OPEN, CLOSING, CLOSED} }

StateErrors == { StateError(readyState) : readyState \in {CONNECTING, OPEN, CLOSING, CLOSED} }

(* the record of a call between its first statement and the end of `await import` *)
NewDispatch(tabId, sessionId) ==
  [ tab                     |-> tabId,
    sessionId               |-> sessionId,
    pc                      |-> "import",
    session                 |-> 0,        \* const session = wsManager.getOrCreateSession(...)
    regSession              |-> 0,        \* the session the unregister closure holds
    isResolved              |-> FALSE,
    messageSuccessfullySent |-> FALSE,
    messageSent             |-> FALSE,
    sendTimeout             |-> FALSE,    \* the 5000 ms timer is pending
    retryTimers             |-> 0,        \* pending setTimeout(checkAndSend, 50)
    outcome                 |-> "pending",
    error                   |-> "",
    settleCalls             |-> 0,        \* calls of the promise's resolve or reject
    sent                    |-> 0,        \* Request Frames passed to ws.send
    atSend                  |-> [ readyState |-> -1,       \* history: at the last ws.send,
                                  listening  |-> FALSE,    \* the state of the transport, whether
                                  settled    |-> FALSE ] ] \* the listener was registered, isResolved

(* the MessageHandler of dispatch d, and a handler some other caller registers *)
DispatchHandler(d) == [kind |-> "dispatch", id |-> d]

Observer(i) == [kind |-> "observer", id |-> i]

(* the function registerHandler returned to dispatch d *)
unregister(w, d) ==
  [w EXCEPT !.conns[w.disp[d].regSession].handlers = SetDelete(@, DispatchHandler(d))]

(* clearTimeout that leaves the timer armed *)
clearTimeoutLeavesTimer(w, d) == w

clearTimeout(w, d) == [w EXCEPT !.disp[d].sendTimeout = FALSE]

resolve(w, d) ==
  [w EXCEPT !.disp[d].settleCalls = @ + 1,
            !.disp[d].outcome = IF @ = "pending" THEN "resolved" ELSE @]

reject(w, d, error) ==
  [w EXCEPT !.disp[d].settleCalls = @ + 1,
            !.disp[d].error = IF w.disp[d].outcome = "pending" THEN error ELSE @,
            !.disp[d].outcome = IF @ = "pending" THEN "rejected" ELSE @]

safeResolve(w, d) ==
  LET w1 == clearTimeout(w, d)
  IN IF w1.disp[d].isResolved
       THEN w1
       ELSE resolve(setStatus([w1 EXCEPT !.disp[d].isResolved = TRUE], "connected"), d)

(* safeReject without the isResolved guard *)
safeRejectUnguarded(w, d, error) ==
  LET w1 == clearTimeout(w, d)
  IN reject(setStatus([w1 EXCEPT !.disp[d].isResolved = TRUE], "error"), d, error)

safeReject(w, d, error) ==
  LET w1 == clearTimeout(w, d)
  IN IF w1.disp[d].isResolved
       THEN w1
       ELSE reject(setStatus([w1 EXCEPT !.disp[d].isResolved = TRUE], "error"), d, error)

(* the callback of sendTimeout without the call of unregister *)
sendTimeoutCallbackKeepsListener(w, d) ==
  LET w1 == [w EXCEPT !.disp[d].sendTimeout = FALSE]
  IN IF w1.disp[d].isResolved \/ w1.disp[d].messageSuccessfullySent
       THEN w1
       ELSE reject(setStatus([w1 EXCEPT !.disp[d].isResolved = TRUE], "error"),
                   d, TimeoutError(w.conns[w.disp[d].session].readyState))

(* the callback of sendTimeout, run when the timer fires *)
sendTimeoutCallback(w, d) ==
  LET w1 == [w EXCEPT !.disp[d].sendTimeout = FALSE]
  IN IF w1.disp[d].isResolved \/ w1.disp[d].messageSuccessfullySent
       THEN w1
       ELSE reject(unregister(setStatus([w1 EXCEPT !.disp[d].isResolved = TRUE],
                                           "error"), d),
                   d, TimeoutError(w.conns[w.disp[d].session].readyState))

(* the listener handed to registerHandler: message.type of null throws a TypeError *)
(* after setStatus, and an output content string that does not parse is logged and  *)
(* dispatches no event                                                               *)
listener(w, d, message) ==
  LET w0 == [w EXCEPT !.invoked = Append(@, [ handler |-> DispatchHandler(d),
                                               settled |-> w.disp[d].isResolved ])]
      w1 == setStatus(w0, "connected")
  IN IF message = Null
       THEN [w1 EXCEPT !.thrown = TRUE]
     ELSE IF message.type = "output"
       THEN IF "content" \in DOMAIN message /\ ~JSONParses(message.content)
              THEN w1
              ELSE Emit(w1, "claude-output", "content", d)
     ELSE IF message.type = "completion"
       THEN LET w2 == unregister(Emit(w1, "claude-complete",
                                      IF message.status = "success" THEN "true" ELSE "false",
                                      d), d)
            IN IF message.status = "success"
                 THEN safeResolve(w2, d)
                 ELSE safeReject(w2, d, OrElse(message.error, "Execution failed"))
     ELSE IF message.type = "error"
       THEN LET w2 == unregister(Emit(w1, "claude-error",
                                      OrElse(message.message, "Unknown error"), d), d)
            IN safeReject(w2, d, OrElse(message.message, "Unknown error"))
     ELSE w1

(* session.ws.send(JSON.stringify(request)) of dispatch d *)
wsSend(w, d) ==
  LET session == w.conns[w.disp[d].session]
  IN [w EXCEPT !.disp[d].sent = @ + 1,
               !.disp[d].atSend = [ readyState |-> session.readyState,
                                    listening  |-> SetHas(session.handlers, DispatchHandler(d)),
                                    settled    |-> w.disp[d].isResolved ]]

(* checkAndSend that also sends while the transport is connecting *)
checkAndSendEager(w, d) ==
  LET readyState == w.conns[w.disp[d].session].readyState
  IN IF w.disp[d].messageSent
       THEN w
     ELSE IF readyState = OPEN \/ readyState = CONNECTING
       THEN LET w1 == wsSend([w EXCEPT !.disp[d].messageSent = TRUE], d)
            IN IF ~w1.disp[d].messageSuccessfullySent
                 THEN clearTimeout([w1 EXCEPT !.disp[d].messageSuccessfullySent = TRUE], d)
                 ELSE w1
     ELSE safeReject(unregister(w, d), d, StateError(readyState))

(* checkAndSend without the messageSent guard *)
checkAndSendUnguarded(w, d) ==
  LET readyState == w.conns[w.disp[d].session].readyState
  IN IF readyState = OPEN
       THEN LET w1 == wsSend([w EXCEPT !.disp[d].messageSent = TRUE], d)
            IN IF ~w1.disp[d].messageSuccessfullySent
                 THEN clearTimeout([w1 EXCEPT !.disp[d].messageSuccessfullySent = TRUE], d)
                 ELSE w1
     ELSE IF readyState = CONNECTING
       THEN [w EXCEPT !.disp[d].retryTimers = @ + 1]
     ELSE safeReject(unregister(w, d), d, StateError(readyState))

checkAndSend(w, d) ==
  LET readyState == w.conns[w.disp[d].session].readyState
  IN IF w.disp[d].messageSent
       THEN w
     ELSE IF readyState = OPEN
       THEN LET w1 == wsSend([w EXCEPT !.disp[d].messageSent = TRUE], d)
            IN IF ~w1.disp[d].messageSuccessfullySent
                 THEN clearTimeout([w1 EXCEPT !.disp[d].messageSuccessfullySent = TRUE], d)
                 ELSE w1
     ELSE IF readyState = CONNECTING
       THEN [w EXCEPT !.disp[d].retryTimers = @ + 1]
     ELSE safeReject(unregister(w, d), d, StateError(readyState))

(* session.ws.addEventListener('open' | 'error' | 'close', ...) of dispatch d *)
dispatchOnOpen(w, d) == checkAndSend(setStatus(w, "connected"), d)

(* the error listener that only sets the status *)
dispatchOnErrorStatusOnly(w, d) == setStatus(w, "error")

dispatchOnError(w, d) ==
  LET w1 == setStatus(w, "error")
  IN IF ~w1.disp[d].isResolved
       THEN safeReject(Emit(unregister(w1, d), "claude-error", ConnectionError, d),
                       d, ConnectionError)
       ELSE w1

dispatchOnClose(w, d, code) ==
  IF code # 1000 /\ code # 1001
    THEN Emit(setStatus(w, "error"), "claude-complete", "false", d)
    ELSE setStatus(w, "disconnected")

(* the body of the promise executor without the registerHandler call *)
dispatchBodyWithoutListener(w, d) ==
  LET tabId == w.disp[d].tab
      w1 == getOrCreateSession(w, tabId, w.disp[d].sessionId)
      session == w1.registry[tabId]
      w2 == [w1 EXCEPT !.disp[d].session = session,
                       !.disp[d].pc = "running",
                       !.disp[d].sendTimeout = TRUE,
                       !.disp[d].regSession = session,
                       !.conns[session].listeners = Append(@, d)]
  IN checkAndSend(w2, d)

(* the body of the promise executor after `await import('./wsSessionManager')` *)
dispatchBody(w, d) ==
  LET tabId == w.disp[d].tab
      w1 == getOrCreateSession(w, tabId, w.disp[d].sessionId)
      session == w1.registry[tabId]
      w2 == [w1 EXCEPT !.disp[d].session = session,
                       !.disp[d].pc = "running",
                       !.disp[d].sendTimeout = TRUE]
      w3 == registerHandler(w2, tabId, DispatchHandler(d))
      w4 == [w3 EXCEPT !.disp[d].regSession = w3.registry[tabId],
                       !.conns[session].listeners = Append(@, d)]
  IN checkAndSend(w4, d)

----------------------------------------------------------------------------
(* The listeners createSession puts on ws, followed by the listeners that      *)
(* dispatches added to the same ws, in the order addEventListener was called. *)

(* handler(message): a dispatch's listener, or a handler of another caller *)
callHandler(w, handler, message) ==
  IF handler.kind = "dispatch"
    THEN listener(w, handler.id, message)
    ELSE [w EXCEPT !.invoked = Append(@, [handler |-> handler, settled |-> FALSE]),
                   !.thrown = handler.id \in ThrowingObservers]

(* session.handlers.forEach(handler => handler(message)): a handler deleted *)
(* before its turn is not called, and an exception ends the iteration        *)
RECURSIVE forEachHandler(_, _, _, _)
forEachHandler(w, session, handlers, message) ==
  IF handlers = <<>> \/ w.thrown
    THEN w
    ELSE forEachHandler(IF SetHas(w.conns[session].handlers, Head(handlers))
                          THEN callHandler(w, Head(handlers), message)
                          ELSE w,
                        session, Tail(handlers), message)

(* the message listener closing the connection on a frame that does not parse *)
sessionOnMessageFatalParse(w, session, frame) ==
  IF frame.valid
    THEN [forEachHandler(w, session, w.conns[session].handlers, frame.msg)
            EXCEPT !.thrown = FALSE]
    ELSE [w EXCEPT !.conns[session].readyState = CLOSING,
                   !.conns[session].isStale = TRUE]

(* try { JSON.parse; handlers.forEach } catch { log } *)
sessionOnMessage(w, session, frame) ==
  IF frame.valid
    THEN [forEachHandler(w, session, w.conns[session].handlers, frame.msg)
            EXCEPT !.thrown = FALSE]
    ELSE w

(* the open listener without the reset of the reconnect counter *)
sessionOnOpenKeepsAttempts(w, session) ==
  [w EXCEPT !.conns[session].isConnected = TRUE,
            !.conns[session].isStale = FALSE]

sessionOnOpen(w, session) ==
  [w EXCEPT !.conns[session].isConnected = TRUE,
            !.conns[session].isStale = FALSE,
            !.reconnectAttempts[w.conns[session].tab] = 0]

sessionOnError(w, session) == w

(* the close listener with code 1001 taken for an unexpected close *)
sessionOnCloseOnly1000(w, session, code) ==
  LET w1 == [w EXCEPT !.conns[session].isConnected = FALSE,
                      !.conns[session].isStale = TRUE]
  IN IF code # 1000
       THEN attemptReconnect(w1, session, w1.conns[session].tab, w1.conns[session].sessionId)
       ELSE w1

sessionOnClose(w, session, code) ==
  LET w1 == [w EXCEPT !.conns[session].isConnected = FALSE,
                      !.conns[session].isStale = TRUE]
  IN IF code # 1000 /\ code # 1001
       THEN attemptReconnect(w1, session, w1.conns[session].tab, w1.conns[session].sessionId)
       ELSE w1

(* the callback attemptReconnect hands to setTimeout *)
reconnectCallback(w, timer) ==
  LET w1 == createSession(w, timer.tab, timer.sessionId)
  IN [w1 EXCEPT !.registry[timer.tab] = Len(w1.conns)]

(* ws.close(code, reason): starts the closing handshake with that code; *)
(* no effect on a transport that is closing or closed                   *)
wsClose(w, session, code) ==
  IF w.conns[session].readyState \in {CONNECTING, OPEN}
    THEN [w EXCEPT !.conns[session].readyState = CLOSING,
                   !.conns[session].closeCode = code]
    ELSE w

(* close without handlers.clear() *)
closeKeepsHandlers(w, tabId) ==
  LET session == w.registry[tabId]
  IN IF session # 0
       THEN [wsClose(w, session, 1000) EXCEPT !.registry[tabId] = 0]
       ELSE w

close(w, tabId) ==
  LET session == w.registry[tabId]
  IN IF session # 0
       THEN [wsClose(w, session, 1000) EXCEPT !.conns[session].handlers = <<>>,
                                              !.registry[tabId] = 0]
       ELSE w

(* closeAll without sessions.clear() *)
closeAllKeepsEntries(w) ==
  [w EXCEPT !.conns = [s \in 1..Len(w.conns) |->
                         IF \E t \in AllTabIds : w.registry[t] = s
                           THEN wsClose(w, s, 1000).conns[s]
                           ELSE w.conns[s]]]

(* sessions.forEach(session => session.ws.close(1000, ...)); sessions.clear() *)
closeAll(w) ==
  [w EXCEPT !.conns = [s \in 1..Len(w.conns) |->
                         IF \E t \in AllTabIds : w.registry[t] = s
                           THEN wsClose(w, s, 1000).conns[s]
                           ELSE w.conns[s]],
            !.registry = [t \in AllTabIds |-> 0]]

(* the record of a send(tabId, message) call *)
NewSend(tabId, session) ==
  [ tab         |-> tabId,
    session     |-> session,     \* const session = this.getOrCreateSession(tabId)
    timer       |-> FALSE,       \* setTimeout(checkOpen, 50) is pending
    polled      |-> FALSE,       \* history: checkOpen found the transport connecting
    outcome     |-> "pending",
    error       |-> "",
    transmitted |-> 0 ]          \* calls of session.ws.send

(* session.ws.send(JSON.stringify(message)); resolve() *)
transmit(w, k) ==
  [w EXCEPT !.sends[k].transmitted = @ + 1,
            !.sends[k].outcome = IF @ = "pending" THEN "resolved" ELSE @]

(* checkOpen that transmits whenever the transport is not connecting *)
checkOpenUnlessConnecting(w, k) ==
  LET readyState == w.conns[w.sends[k].session].readyState
  IN IF readyState = CONNECTING
       THEN [w EXCEPT !.sends[k].timer = TRUE, !.sends[k].polled = TRUE]
       ELSE transmit(w, k)

(* the checkOpen closure of send call k *)
checkOpen(w, k) ==
  LET readyState == w.conns[w.sends[k].session].readyState
  IN IF readyState = OPEN
       THEN transmit(w, k)
     ELSE IF readyState = CONNECTING
       THEN [w EXCEPT !.sends[k].timer = TRUE, !.sends[k].polled = TRUE]
     ELSE [w EXCEPT !.sends[k].outcome = IF @ = "pending" THEN "rejected" ELSE @,
                    !.sends[k].error = ConnectionError]

(* send(tabId, message): the promise executor; the call is the last entry of sends *)
send(w, tabId) ==
  LET w1 == getOrCreateSession(w, tabId, NoSessionId)
      session == w1.registry[tabId]
      w2 == [w1 EXCEPT !.sends = Append(@, NewSend(tabId, session))]
      k == Len(w2.sends)
  IN IF w2.conns[session].readyState # OPEN
       THEN checkOpen(w2, k)
       ELSE transmit(w2, k)

RECURSIVE dispatchListeners(_, _, _, _)
dispatchListeners(w, ds, event, code) ==
  IF ds = <<>>
    THEN w
    ELSE dispatchListeners(
           CASE event = "open" -> dispatchOnOpen(w, Head(ds))
             [] event = "error" -> dispatchOnError(w, Head(ds))
             [] event = "close" -> dispatchOnClose(w, Head(ds), code),
           Tail(ds), event, code)

openEvent(w, session) ==
  LET w1 == [w EXCEPT !.conns[session].readyState = OPEN,
                      !.conns[session].established = TRUE]
  IN dispatchListeners(sessionOnOpen(w1, session), w1.conns[session].listeners, "open", 0)

messageEvent(w, session, frame) == sessionOnMessage(w, session, frame)

errorEvent(w, session) ==
  LET w1 == [w EXCEPT !.conns[session].readyState = CLOSED,
                      !.conns[session].closeCode = 0]
  IN dispatchListeners(sessionOnError(w1, session), w1.conns[session].listeners, "error", 0)

closeEvent(w, session, code) ==
  LET w1 == [w EXCEPT !.conns[session].readyState = CLOSED,
                      !.conns[session].closeCode = 0]
  IN dispatchListeners(sessionOnClose(w1, session, code), w1.conns[session].listeners,
                       "close", code)

----------------------------------------------------------------------------
(* The state machine *)

World ==
  [ conns |-> conns, registry |-> registry, reconnectAttempts |-> reconnectAttempts,
    timers |-> timers, disp |-> disp, net |-> net, sends |-> sends, health |-> health,
    module |-> module, browser |-> browser,
    invoked |-> <<>>,      \* handler calls of this step
    emitted |-> <<>>,      \* UI events of this step
    notified |-> <<>>,     \* Network Status callbacks called in this step
    thrown |-> FALSE ]     \* an exception is propagating

Commit(w) ==
  /\ conns' = w.conns
  /\ registry' = w.registry
  /\ reconnectAttempts' = w.reconnectAttempts
  /\ timers' = w.timers
  /\ disp' = w.disp
  /\ net' = w.net
  /\ sends' = w.sends
  /\ health' = w.health
  /\ module' = w.module
  /\ browser' = w.browser

Live(s) == s # 0 /\ ~conns[s].isStale /\ conns[s].readyState # CLOSED

Abnormal(code) == code # 1000 /\ code # 1001

(* a page that has just loaded: wsSessionManager.ts and apiAdapter executed once, *)
(* nothing called yet; sessionStorage is what the tab kept                       *)
Boot(storage) ==
  /\ conns = <<>>
  /\ registry = NewGlobalState.sessions
  /\ reconnectAttempts = NewGlobalState.reconnectAttempts
  /\ timers = {}
  /\ disp = <<>>
  /\ net = NewNetworkStatusManager
  /\ sends = <<>>
  /\ health = NewHealth
  /\ module = NewModule
  /\ browser = storage
  /\ pendingClose = 0
  /\ unreg = {}
  /\ unsub = {}
  /\ lastReturned = [t \in AllTabIds |-> 0]
  /\ closedEntry = [t \in AllTabIds |-> 0]
  /\ abnormalCloses = [t \in AllTabIds |-> 0]
  /\ reconnectCreated = [t \in AllTabIds |-> 0]

Init == Boot(NewBrowser(TRUE))

(* handleStreamingCommand up to `await import`: networkStatusManager.setStatus('connecting') *)
DispatchCall(tabId, sessionId, draw, maxDispatch) ==
  /\ pendingClose = 0
  /\ Len(disp) < maxDispatch
  /\ LET w == IF sessionId = NoSessionId THEN getPersistentSessionId(World, draw) ELSE World
         id == OrElse(sessionId, w.browser.returned)
     IN Commit([setStatus(w, "connecting") EXCEPT !.disp = Append(@, NewDispatch(tabId, id))])
  /\ UNCHANGED <<unsub, pendingClose, unreg, lastReturned, closedEntry, abnormalCloses, reconnectCreated>>

CanDispatchBody(d) == pendingClose = 0 /\ disp[d].pc = "import"

DispatchBody(d, maxSessions) ==
  /\ CanDispatchBody(d)
  /\ LET w == dispatchBody(World, d)
     IN /\ Len(w.conns) <= maxSessions
        /\ Commit(w)
        /\ lastReturned' = [lastReturned EXCEPT ![disp[d].tab] = w.registry[disp[d].tab]]
  /\ closedEntry' = [closedEntry EXCEPT ![disp[d].tab] = 0]
  /\ UNCHANGED <<unsub, pendingClose, unreg, abnormalCloses, reconnectCreated>>

CanSendTimeout(d) == pendingClose = 0 /\ disp[d].sendTimeout

SendTimeoutFires(d) ==
  /\ CanSendTimeout(d)
  /\ Commit(sendTimeoutCallback(World, d))
  /\ UNCHANGED <<unsub, pendingClose, unreg, lastReturned, closedEntry, abnormalCloses, reconnectCreated>>

CanRetry(d) == pendingClose = 0 /\ disp[d].retryTimers > 0

RetryFires(d) ==
  /\ CanRetry(d)
  /\ Commit(checkAndSend([World EXCEPT !.disp[d].retryTimers = @ - 1], d))
  /\ UNCHANGED <<unsub, pendingClose, unreg, lastReturned, closedEntry, abnormalCloses, reconnectCreated>>

(* a caller other than handleStreamingCommand: wsManager.getOrCreateSession(tabId, sessionId) *)
GetOrCreateSession(tabId, sessionId, maxSessions) ==
  /\ pendingClose = 0
  /\ LET w == getOrCreateSession(World, tabId, sessionId)
     IN /\ Len(w.conns) <= maxSessions
        /\ Commit(w)
        /\ lastReturned' = [lastReturned EXCEPT ![tabId] = w.registry[tabId]]
  /\ closedEntry' = [closedEntry EXCEPT ![tabId] = 0]
  /\ UNCHANGED <<unsub, pendingClose, unreg, abnormalCloses, reconnectCreated>>

(* a caller other than handleStreamingCommand: wsManager.registerHandler(tabId, handler) *)
RegisterHandler(tabId, handler, maxSessions) ==
  /\ pendingClose = 0
  /\ \A u \in unreg : u.handler # handler
  /\ LET w == registerHandler(World, tabId, handler)
     IN /\ Len(w.conns) <= maxSessions
        /\ Commit(w)
        /\ unreg' = unreg \cup {[ handler |-> handler, tab |-> tabId,
                                   session |-> w.registry[tabId], called |-> FALSE,
                                   seq |-> Cardinality(unreg) + 1 ]}  \* history: n-th registration
        /\ lastReturned' = [lastReturned EXCEPT ![tabId] = w.registry[tabId]]
  /\ closedEntry' = [closedEntry EXCEPT ![tabId] = 0]
  /\ UNCHANGED <<unsub, pendingClose, abnormalCloses, reconnectCreated>>

(* the caller runs the function registerHandler returned: session.handlers.delete(handler) *)
Unregister(u) ==
  /\ pendingClose = 0
  /\ u \in unreg
  /\ ~u.called
  /\ Commit([World EXCEPT !.conns[u.session].handlers = SetDelete(@, u.handler)])
  /\ unreg' = (unreg \ {u}) \cup {[u EXCEPT !.called = TRUE]}
  /\ UNCHANGED <<unsub, pendingClose, lastReturned, closedEntry, abnormalCloses, reconnectCreated>>

ReconnectFires(timer, maxSessions) ==
  /\ pendingClose = 0
  /\ timer \in timers
  /\ Len(conns) < maxSessions
  /\ Commit(reconnectCallback([World EXCEPT !.timers = @ \ {timer}], timer))
  /\ reconnectCreated' = [reconnectCreated EXCEPT ![timer.tab] = @ + 1]
  /\ UNCHANGED <<unsub, pendingClose, unreg, lastReturned, closedEntry, abnormalCloses>>

Close(tabId) ==
  /\ pendingClose = 0
  /\ Commit(close(World, tabId))
  /\ lastReturned' = [lastReturned EXCEPT ![tabId] = 0]
  /\ closedEntry' = [closedEntry EXCEPT ![tabId] = 0]
  /\ UNCHANGED <<unsub, pendingClose, unreg, abnormalCloses, reconnectCreated>>

CloseAll ==
  /\ pendingClose = 0
  /\ Commit(closeAll(World))
  /\ lastReturned' = [t \in AllTabIds |-> 0]
  /\ closedEntry' = [t \in AllTabIds |-> 0]
  /\ UNCHANGED <<unsub, pendingClose, unreg, abnormalCloses, reconnectCreated>>

(* a caller's wsManager.send(tabId, message) *)
Send(tabId, maxSends, maxSessions) ==
  /\ pendingClose = 0
  /\ Len(sends) < maxSends
  /\ LET w == send(World, tabId)
     IN /\ Len(w.conns) <= maxSessions
        /\ Commit(w)
        /\ lastReturned' = [lastReturned EXCEPT ![tabId] = w.registry[tabId]]
  /\ closedEntry' = [closedEntry EXCEPT ![tabId] = 0]
  /\ UNCHANGED <<unsub, pendingClose, unreg, abnormalCloses, reconnectCreated>>

(* the 50 ms timer of a send call fires *)
CanSendPoll(k) == pendingClose = 0 /\ sends[k].timer

SendPoll(k) ==
  /\ CanSendPoll(k)
  /\ Commit(checkOpen([World EXCEPT !.sends[k].timer = FALSE], k))
  /\ UNCHANGED <<unsub, pendingClose, unreg, lastReturned, closedEntry, abnormalCloses, reconnectCreated>>

(* the callbacks with a subscription whose unsubscribe function was not called *)
Subscribed == { u.callback : u \in { v \in unsub : ~v.called } }

(* a component subscribes a callback that has no subscription *)
Subscribe(callback) ==
  /\ callback \notin Subscribed
  /\ Commit(subscribe(World, callback))
  /\ unsub' = { u \in unsub : u.callback # callback }
                 \cup {[callback |-> callback, called |-> FALSE]}
  /\ UNCHANGED <<pendingClose, unreg, lastReturned, closedEntry, abnormalCloses, reconnectCreated>>

(* the component runs the function subscribe returned *)
Unsubscribe(u) ==
  /\ u \in unsub
  /\ ~u.called
  /\ Commit(unsubscribe(World, u.callback))
  /\ unsub' = (unsub \ {u}) \cup {[u EXCEPT !.called = TRUE]}
  /\ UNCHANGED <<pendingClose, unreg, lastReturned, closedEntry, abnormalCloses, reconnectCreated>>

(* a status change reported to the manager *)
SetStatus(status, maxChanges) ==
  /\ net.clock < maxChanges
  /\ Commit(setStatus(World, status))
  /\ UNCHANGED <<unsub, pendingClose, unreg, lastReturned, closedEntry, abnormalCloses, reconnectCreated>>

(* a caller runs networkStatusManager.reset() *)
Reset(maxChanges) ==
  /\ net.clock < maxChanges
  /\ Commit(reset(World))
  /\ UNCHANGED <<unsub, pendingClose, unreg, lastReturned, closedEntry, abnormalCloses, reconnectCreated>>

(* a component mounts: networkStatusManager.startHealthCheck() *)
StartHealthCheck(maxIntervals, maxInflight) ==
  /\ health.created < maxIntervals
  /\ health.inflight < maxInflight
  /\ Commit(startHealthCheck(World))
  /\ UNCHANGED <<unsub, pendingClose, unreg, lastReturned, closedEntry, abnormalCloses, reconnectCreated>>

(* a component unmounts: networkStatusManager.stopHealthCheck() *)
StopHealthCheck ==
  /\ Commit(stopHealthCheck(World))
  /\ UNCHANGED <<unsub, pendingClose, unreg, lastReturned, closedEntry, abnormalCloses, reconnectCreated>>

(* an interval timer fires: performHealthCheck up to its await *)
IntervalFires(id, maxInflight) ==
  /\ id \in health.intervals
  /\ health.inflight < maxInflight
  /\ Commit(issueProbe(World))
  /\ UNCHANGED <<unsub, pendingClose, unreg, lastReturned, closedEntry, abnormalCloses, reconnectCreated>>

(* the fetch of a probe settles: performHealthCheck resumes after its await *)
CanProbeSettle == health.inflight > 0

ProbeSettles(outcome, maxChanges) ==
  /\ CanProbeSettle
  /\ net.clock < maxChanges
  /\ Commit(performHealthCheck([World EXCEPT !.health.inflight = @ - 1], outcome))
  /\ UNCHANGED <<unsub, pendingClose, unreg, lastReturned, closedEntry, abnormalCloses, reconnectCreated>>

(* transport: the opening handshake completes *)
CanWsOpen(s) == pendingClose = 0 /\ conns[s].readyState = CONNECTING

WsOpen(s) ==
  /\ CanWsOpen(s)
  /\ Commit(openEvent(World, s))
  /\ abnormalCloses' = [abnormalCloses EXCEPT ![conns[s].tab] = 0]
  /\ reconnectCreated' = [reconnectCreated EXCEPT ![conns[s].tab] = 0]
  /\ UNCHANGED <<unsub, pendingClose, unreg, lastReturned, closedEntry>>

(* transport: a text frame arrives *)
CanWsMessage(s) == pendingClose = 0 /\ conns[s].readyState = OPEN

WsMessage(s, frame) ==
  /\ CanWsMessage(s)
  /\ Commit(messageEvent(World, s, frame))
  /\ UNCHANGED <<unsub, pendingClose, unreg, lastReturned, closedEntry, abnormalCloses, reconnectCreated>>

(* transport: the connection failed; readyState is CLOSED when the error event runs, *)
(* and the close event follows in the same task with code 1006                      *)
CanWsError(s) == pendingClose = 0 /\ conns[s].readyState # CLOSED

WsError(s) ==
  /\ CanWsError(s)
  /\ Commit(errorEvent(World, s))
  /\ pendingClose' = s
  /\ UNCHANGED <<unsub, unreg, lastReturned, closedEntry, abnormalCloses, reconnectCreated>>

(* transport: the close event, after an error event or on its own *)
CanWsClose(s, code) ==
  \/ pendingClose = s /\ code = 1006
  \/ /\ pendingClose = 0
     /\ conns[s].established
     /\ conns[s].readyState \in {OPEN, CLOSING}

WsClose(s, code) ==
  /\ CanWsClose(s, code)
  /\ Commit(closeEvent(World, s, code))
  /\ pendingClose' = 0
  /\ abnormalCloses' = [abnormalCloses EXCEPT ![conns[s].tab] =
                          IF Abnormal(code) THEN @ + 1 ELSE @]
  /\ closedEntry' = [closedEntry EXCEPT ![conns[s].tab] =
                       IF registry[conns[s].tab] = s THEN s ELSE @]
  /\ UNCHANGED <<unsub, unreg, lastReturned, reconnectCreated>>

(* transport: the events of every connection *)
Transport ==
  \/ \E s \in 1..Len(conns) : WsOpen(s)
  \/ \E s \in 1..Len(conns), frame \in Frames : WsMessage(s, frame)
  \/ \E s \in 1..Len(conns) : WsError(s)
  \/ \E s \in 1..Len(conns), code \in CloseCodes : WsClose(s, code)

(* the timers of the handleStreamingCommand calls *)
DispatchTimers ==
  \/ \E d \in 1..Len(disp) : SendTimeoutFires(d)
  \/ \E d \in 1..Len(disp) : RetryFires(d)

(* handleStreamingCommand as the only caller of the session manager *)
Next ==
  \/ \E t \in TabIds, sid \in SessionIds : DispatchCall(t, sid, 1, MaxDispatch)
  \/ \E d \in 1..Len(disp) : DispatchBody(d, MaxDispatchSessions)
  \/ DispatchTimers
  \/ \E timer \in timers : ReconnectFires(timer, MaxDispatchSessions)
  \/ \E t \in TabIds : Close(t)
  \/ Transport

Spec == Init /\ [][Next]_vars

(* Spec with its scheduling: the continuation of `await import` runs, timers    *)
(* that are armed fire, and a transport that can raise an event raises one      *)
LiveSpec ==
  /\ Init
  /\ [][Next]_vars
  /\ WF_vars(\E d \in 1..Len(disp) : DispatchBody(d, MaxDispatchSessions))
  /\ WF_vars(DispatchTimers)
  /\ WF_vars(\E timer \in timers : ReconnectFires(timer, MaxDispatchSessions))
  /\ WF_vars(Transport)

(* successive handleStreamingCommand calls on a tab *)
RedispatchNext ==
  \/ \E t \in TabIds, sid \in SessionIds : DispatchCall(t, sid, 1, MaxRedispatch)
  \/ \E d \in 1..Len(disp) : DispatchBody(d, MaxRedispatchSessions)
  \/ DispatchTimers
  \/ \E timer \in timers : ReconnectFires(timer, MaxRedispatchSessions)
  \/ \E t \in TabIds : Close(t)
  \/ Transport

RedispatchSpec == Init /\ [][RedispatchNext]_vars

(* the connection registry driven through getOrCreateSession and close *)
ManagerNext ==
  \/ \E t \in TabIds : GetOrCreateSession(t, NoSessionId, MaxSessions)
  \/ \E timer \in timers : ReconnectFires(timer, MaxSessions)
  \/ \E t \in TabIds : Close(t)
  \/ Transport

ManagerSpec == Init /\ [][ManagerNext]_vars

(* the registry driven through getOrCreateSession over many reconnects *)
ReconnectNext ==
  \/ \E t \in TabIds : GetOrCreateSession(t, NoSessionId, MaxReconnectSessions)
  \/ \E timer \in timers : ReconnectFires(timer, MaxReconnectSessions)
  \/ Transport

ReconnectSpec == Init /\ [][ReconnectNext]_vars

(* callers that register plain handlers *)
HandlerNext ==
  \/ \E t \in TabIds, i \in ObserverIds : RegisterHandler(t, Observer(i), MaxHandlerSessions)
  \/ \E u \in unreg : Unregister(u)
  \/ \E timer \in timers : ReconnectFires(timer, MaxHandlerSessions)
  \/ \E t \in TabIds : Close(t)
  \/ Transport

HandlerSpec == Init /\ [][HandlerNext]_vars

(* callers that register plain handlers and callers of getOrCreateSession *)
OrderNext ==
  \/ \E t \in TabIds, i \in ObserverIds : RegisterHandler(t, Observer(i), MaxOrderSessions)
  \/ \E t \in TabIds : GetOrCreateSession(t, NoSessionId, MaxOrderSessions)
  \/ \E u \in unreg : Unregister(u)
  \/ \E timer \in timers : ReconnectFires(timer, MaxOrderSessions)
  \/ \E t \in TabIds : Close(t)
  \/ Transport

OrderSpec == Init /\ [][OrderNext]_vars

(* callers of send on one tab *)
SendNext ==
  \/ \E t \in TabIds : Send(t, MaxSends, MaxSendSessions)
  \/ \E k \in 1..Len(sends) : SendPoll(k)
  \/ \E timer \in timers : ReconnectFires(timer, MaxSendSessions)
  \/ \E t \in TabIds : Close(t)
  \/ Transport

SendSpec == Init /\ [][SendNext]_vars

(* handlers registered on several tabs, and teardown *)
TabsNext ==
  \/ \E t \in AllTabIds, i \in ObserverIds : RegisterHandler(t, Observer(i), MaxTabsSessions)
  \/ \E timer \in timers : ReconnectFires(timer, MaxTabsSessions)
  \/ \E t \in AllTabIds : Close(t)
  \/ CloseAll
  \/ Transport

TabsSpec == Init /\ [][TabsNext]_vars

(* type NetworkStatus, and the statuses reported in NetSpec *)
NetworkStatus == {"disconnected", "connecting", "connected", "error"}

StatusInputs == {"connected", "error"}

(* the Network Status manager with its subscribers *)
NetNext ==
  \/ \E status \in StatusInputs : SetStatus(status, MaxChanges)
  \/ \E callback \in CallbackIds : Subscribe(callback)
  \/ \E u \in unsub : Unsubscribe(u)

NetSpec == Init /\ [][NetNext]_vars

(* the health check, next to a dispatcher that reports 'connecting' and a caller of reset *)
HealthNext ==
  \/ StartHealthCheck(MaxIntervals, MaxInflight)
  \/ StopHealthCheck
  \/ \E id \in health.intervals : IntervalFires(id, MaxInflight)
  \/ \E outcome \in ProbeOutcomes : ProbeSettles(outcome, MaxHealthChanges)
  \/ SetStatus("connecting", MaxHealthChanges)
  \/ Reset(MaxHealthChanges)

HealthSpec == Init /\ [][HealthNext]_vars

(* wsSessionManager.ts executes again in the same realm (hot module replacement) *)
ModuleReload(maxExecutions) ==
  /\ pendingClose = 0
  /\ module.executions < maxExecutions
  /\ Commit(moduleExecute(World))
  /\ UNCHANGED <<pendingClose, unreg, unsub, lastReturned, closedEntry, abnormalCloses, reconnectCreated>>

(* the registry driven through getOrCreateSession and close while the module re-executes *)
ReexecNext ==
  \/ \E t \in TabIds : GetOrCreateSession(t, NoSessionId, MaxReexecSessions)
  \/ \E timer \in timers : ReconnectFires(timer, MaxReexecSessions)
  \/ \E t \in TabIds : Close(t)
  \/ Transport
  \/ ModuleReload(MaxExecutions)

ReexecSpec == Init /\ [][ReexecNext]_vars

(* The page reloads: the realm and everything in it is discarded, both modules  *)
(* execute again, sessionStorage is kept.                                       *)
PageReload(maxReloads) ==
  /\ pendingClose = 0
  /\ browser.loads < maxReloads
  /\ Commit([World EXCEPT !.conns = <<>>,
                          !.registry = NewGlobalState.sessions,
                          !.reconnectAttempts = NewGlobalState.reconnectAttempts,
                          !.timers = {},
                          !.disp = <<>>,
                          !.net = NewNetworkStatusManager,
                          !.sends = <<>>,
                          !.health = NewHealth,
                          !.module = NewModule,
                          !.browser.returned = "",
                          !.browser.loads = @ + 1])
  /\ pendingClose' = 0
  /\ unreg' = {}
  /\ unsub' = {}
  /\ lastReturned' = [t \in AllTabIds |-> 0]
  /\ closedEntry' = [t \in AllTabIds |-> 0]
  /\ abnormalCloses' = [t \in AllTabIds |-> 0]
  /\ reconnectCreated' = [t \in AllTabIds |-> 0]

(* dispatches without a sessionId in a tab that reloads *)
ReloadNext ==
  \/ \E t \in TabIds, draw \in Draws : DispatchCall(t, NoSessionId, draw, MaxReloadDispatch)
  \/ \E d \in 1..Len(disp) : DispatchBody(d, MaxReloadSessions)
  \/ DispatchTimers
  \/ Transport
  \/ PageReload(MaxReloads)

ReloadInit == \E available \in BOOLEAN : Boot(NewBrowser(available))

ReloadSpec == ReloadInit /\ [][ReloadNext]_vars

----------------------------------------------------------------------------
(* Properties of the connection registry *)

(* C1: as long as the connection getOrCreateSession last returned for a tab is  *)
(* neither stale nor closed, and close(tabId) was not called, the next          *)
(* getOrCreateSession(tabId) returns that same connection.                      *)
C1_SameConnectionReturned ==
  \A t \in TabIds :
    Live(lastReturned[t]) =>
      getOrCreateSession(World, t, NoSessionId).registry[t] = lastReturned[t]

(* C2: once the registry entry of a tab got a close event, the next             *)
(* getOrCreateSession(tabId) returns another connection, and that connection    *)
(* holds every handler the closed one held (and that was not unregistered       *)
(* since), also when a reconnect timer fired in between.                        *)
C2_HandlersFollowClosedConnection ==
  \A t \in TabIds :
    closedEntry[t] # 0 =>
      LET old == closedEntry[t]
          w == getOrCreateSession(World, t, NoSessionId)
          new == w.registry[t]
      IN /\ new # old
         /\ \A i \in 1..Len(conns[old].handlers) :
              SetHas(w.conns[new].handlers, conns[old].handlers[i])

(* C3: in every reachable state at most one connection of a tab is non-stale;   *)
(* a connection whose transport is already closing or closed (after close())    *)
(* is not counted.                                                              *)
C3_OneLiveConnectionPerTab ==
  \A t \in TabIds :
    Cardinality({ s \in 1..Len(conns) :
                    /\ conns[s].tab = t
                    /\ ~conns[s].isStale
                    /\ conns[s].readyState \in {CONNECTING, OPEN} }) <= 1

(* C8: the k-th abnormal close of a tab since its last open event schedules     *)
(* reconnect attempt k after k * 1000 ms for k = 1, 2, 3, and from the 4th on   *)
(* no timer is scheduled.                                                       *)
C8_LinearBackoff ==
  \A s \in 1..Len(conns), code \in CloseCodes :
    (CanWsClose(s, code) /\ Abnormal(code)) =>
      LET t == conns[s].tab
          k == abnormalCloses[t] + 1
          w == closeEvent(World, s, code)
      IN IF k <= 3
           THEN /\ timers \subseteq w.timers
                /\ w.timers \ timers = { [ from |-> s, tab |-> t,
                                           sessionId |-> conns[s].sessionId,
                                           attempt |-> k, delay |-> k * 1000 ] }
           ELSE w.timers = timers

(* the 4th abnormal close in a row has happened *)
C8_Witness == \E t \in TabIds : abnormalCloses[t] = 4 /\ timers = {}

(* C9: a close event with code 1000 or 1001 schedules no reconnect and leaves   *)
(* the attempt counter as it is; with any other code the close runs the         *)
(* reconnect policy: below the cap the counter goes up by one and one timer is  *)
(* scheduled, at the cap nothing changes.                                       *)
C9_CloseCodes ==
  \A s \in 1..Len(conns), code \in CloseCodes :
    CanWsClose(s, code) =>
      LET t == conns[s].tab
          w == closeEvent(World, s, code)
      IN IF code = 1000 \/ code = 1001 \/ reconnectAttempts[t] >= 3
           THEN w.timers = timers /\ w.reconnectAttempts = reconnectAttempts
           ELSE /\ w.reconnectAttempts[t] = reconnectAttempts[t] + 1
                /\ Cardinality(w.timers \ timers) = 1
                /\ timers \subseteq w.timers

(* the only connection opened, then got a close event that was not abnormal *)
C9_Witness ==
  /\ Len(conns) = 1
  /\ conns[1].established
  /\ conns[1].isStale
  /\ abnormalCloses[conns[1].tab] = 0
  /\ timers = {}
  /\ reconnectAttempts[conns[1].tab] = 0

(* C24: executing wsSessionManager.ts again leaves the registry as it is: the    *)
(* module's globalState is the object it was, there is one such object, the     *)
(* sessions, the reconnect counters and the connections are unchanged, and      *)
(* getOrCreateSession after the re-execution creates no connection for a tab    *)
(* whose entry is live.                                                         *)
C24_ReexecutionKeepsRegistry ==
  /\ module.objects = 1
  /\ module.globalState = module.stored
  /\ LET w == moduleExecute(World)
     IN /\ w.module.globalState = module.globalState
        /\ w.module.objects = module.objects
        /\ w.registry = registry
        /\ w.reconnectAttempts = reconnectAttempts
        /\ w.conns = conns
        /\ w.timers = timers
        /\ \A t \in TabIds :
             Live(registry[t]) =>
               /\ getOrCreateSession(w, t, NoSessionId).conns = conns
               /\ getOrCreateSession(w, t, NoSessionId).registry[t] = registry[t]

(* the module executed again while a tab had an open connection, and the        *)
(* connection is still the entry of the tab                                     *)
C24_Witness ==
  /\ module.executions >= 2
  /\ \E t \in TabIds : Live(registry[t]) /\ conns[registry[t]].readyState = OPEN
  /\ reconnectAttempts # NewGlobalState.reconnectAttempts

(* C26: the connection getOrCreateSession returns is not stale and its          *)
(* transport is not closed, in whatever state it is called.                     *)
C26_ReturnedIsLive ==
  \A t \in TabIds :
    LET w == getOrCreateSession(World, t, NoSessionId)
        session == w.conns[w.registry[t]]
    IN /\ w.registry[t] # 0
       /\ ~session.isStale
       /\ session.readyState # CLOSED

(* getOrCreateSession returned the replacement of a connection that had closed  *)
C26_Witness ==
  \E t \in TabIds :
    /\ lastReturned[t] = Len(conns)
    /\ Len(conns) > 1
    /\ Live(lastReturned[t])
    /\ timers = {}
    /\ \A s \in 1..(Len(conns) - 1) : conns[s].isStale /\ conns[s].readyState = CLOSED

(* C33: while no getOrCreateSession, registerHandler or send call was made for  *)
(* a tab since its close(tabId), the tab has no registry entry, and a pending   *)
(* reconnect timer of the tab would create no connection.                       *)
C33_ClosedTabStaysClosed ==
  \A t \in TabIds :
    lastReturned[t] = 0 =>
      /\ registry[t] = 0
      /\ \A timer \in timers :
           timer.tab = t => reconnectCallback(World, timer).conns = conns

(* C38: the reconnect counter of a tab is between 0 and 3, and the reconnect    *)
(* timers created at most 3 connections for the tab since its last open event.  *)
C38_ReconnectBound ==
  \A t \in TabIds :
    /\ reconnectAttempts[t] \in 0..MAX_RECONNECT_ATTEMPTS
    /\ reconnectCreated[t] <= MAX_RECONNECT_ATTEMPTS

(* the flags of every connection and the reconnect counters *)
Flags(w) ==
  [ isConnected       |-> [s \in 1..Len(w.conns) |-> w.conns[s].isConnected],
    isStale           |-> [s \in 1..Len(w.conns) |-> w.conns[s].isStale],
    reconnectAttempts |-> w.reconnectAttempts ]

(* C32: an open event leaves the connection connected and not stale and the     *)
(* reconnect counter of its tab at 0; a close event, whatever its code, leaves  *)
(* the connection stale and not connected; an error event leaves the flags of   *)
(* every connection and every reconnect counter as they were.                   *)
C32_TransportEvents ==
  \A s \in 1..Len(conns) :
    /\ CanWsOpen(s) =>
         LET w == openEvent(World, s)
         IN /\ w.conns[s].isConnected
            /\ ~w.conns[s].isStale
            /\ w.reconnectAttempts[conns[s].tab] = 0
    /\ \A code \in CloseCodes :
         CanWsClose(s, code) =>
           LET w == closeEvent(World, s, code)
           IN w.conns[s].isStale /\ ~w.conns[s].isConnected
    /\ CanWsError(s) => Flags(errorEvent(World, s)) = Flags(World)

(* a replacement connection opened and the counter is 0 while a reconnect timer *)
(* of the connection that closed before is still pending                        *)
C32_Witness ==
  \E s \in 2..Len(conns) :
    /\ conns[s].isConnected
    /\ conns[s].readyState = OPEN
    /\ reconnectAttempts[conns[s].tab] = 0
    /\ conns[1].isStale /\ ~conns[1].isConnected
    /\ \E timer \in timers : timer.from = 1

----------------------------------------------------------------------------
(* Properties of handleStreamingCommand *)

(* C4: a handleStreamingCommand call passes at most one Request Frame to        *)
(* ws.send, whatever the order of the direct checkAndSend, the 50 ms re-checks  *)
(* and the 'open' listener.                                                     *)
C4_AtMostOneFrame == \A d \in 1..Len(disp) : disp[d].sent <= 1

(* the frame went out from the 'open' listener while a 50 ms re-check is pending *)
C4_Witness == \E d \in 1..Len(disp) : disp[d].sent = 1 /\ disp[d].retryTimers > 0

(* C5: the promise's resolve or reject is called at most once per call, and it  *)
(* was called exactly when the call is marked resolved.                         *)
C5_SettlesOnce ==
  \A d \in 1..Len(disp) :
    /\ disp[d].settleCalls <= 1
    /\ (disp[d].settleCalls = 1) = disp[d].isResolved
    /\ (disp[d].settleCalls = 0) = (disp[d].outcome = "pending")

(* the send-timeout rejected the call, then its connection failed and the error *)
(* listener ran                                                                 *)
C5_Witness ==
  \E d \in 1..Len(disp) :
    /\ disp[d].outcome = "rejected"
    /\ disp[d].error \in TimeoutErrors
    /\ pendingClose = disp[d].session

(* C6: the listener of a call that has resolved or rejected is not called for   *)
(* any later frame, also after the tab's connection was replaced.               *)
C6_SettledListenerNotCalled ==
  \A s \in 1..Len(conns), frame \in Frames :
    CanWsMessage(s) =>
      LET w == messageEvent(World, s, frame)
      IN \A i \in 1..Len(w.invoked) : ~w.invoked[i].settled

(* C7: when the send-timeout fires and the connection of the call never opened, *)
(* the call rejects with the timeout error, its listener is on no connection    *)
(* and no Request Frame was sent for it.                                        *)
C7_SendTimeoutRejects ==
  \A d \in 1..Len(disp) :
    (CanSendTimeout(d) /\ ~conns[disp[d].session].established) =>
      LET w == sendTimeoutCallback(World, d)
      IN /\ w.disp[d].outcome = "rejected"
         /\ w.disp[d].error = TimeoutError(conns[disp[d].session].readyState)
         /\ w.disp[d].settleCalls = 1
         /\ w.disp[d].sent = 0
         /\ \A s \in 1..Len(w.conns) : ~SetHas(w.conns[s].handlers, DispatchHandler(d))

(* the send-timeout rejected a call whose connection is still connecting *)
C7_Witness ==
  \E d \in 1..Len(disp) :
    /\ disp[d].outcome = "rejected"
    /\ disp[d].error = TimeoutError(CONNECTING)
    /\ disp[d].sent = 0
    /\ conns[disp[d].session].readyState = CONNECTING

(* C10: when the listener of a pending call gets a completion frame with status *)
(* success, the call resolves, Network Status is connected and the listener is  *)
(* no longer among the handlers of the connection the frame came in on.         *)
C10_SuccessCompletion ==
  \A s \in 1..Len(conns) :
    CanWsMessage(s) =>
      LET frame == [ valid |-> TRUE,
                     msg |-> [type |-> "completion", status |-> "success", error |-> ""] ]
          w == messageEvent(World, s, frame)
      IN \A d \in 1..Len(disp) :
           (SetHas(conns[s].handlers, DispatchHandler(d)) /\ ~disp[d].isResolved) =>
             /\ w.disp[d].outcome = "resolved"
             /\ w.net.currentStatus = "connected"
             /\ ~SetHas(w.conns[s].handlers, DispatchHandler(d))

(* the frames that end a call with a failure, and the message such a frame carries *)
FailureFrames ==
  { frame \in Frames :
      /\ frame.valid
      /\ frame.msg # Null
      /\ \/ frame.msg.type = "error"
         \/ frame.msg.type = "completion" /\ frame.msg.status # "success" }

Carried(msg) == IF msg.type = "error" THEN msg.message ELSE msg.error

(* C11: when the listener of a pending call gets a completion frame with a      *)
(* failure status or an error frame, before or after any output frame, the call *)
(* rejects with the message the frame carries, Network Status is error and the  *)
(* listener is no longer among the handlers of the connection the frame came in *)
(* on.                                                                          *)
C11_FailureRejects ==
  \A s \in 1..Len(conns), frame \in FailureFrames :
    CanWsMessage(s) =>
      LET w == messageEvent(World, s, frame)
      IN \A d \in 1..Len(disp) :
           (SetHas(conns[s].handlers, DispatchHandler(d)) /\ ~disp[d].isResolved) =>
             /\ w.disp[d].outcome = "rejected"
             /\ Carried(frame.msg) # "" => w.disp[d].error = Carried(frame.msg)
             /\ w.net.currentStatus = "error"
             /\ ~SetHas(w.conns[s].handlers, DispatchHandler(d))

(* the handlers a message event called *)
Invoked(w) == { w.invoked[j].handler : j \in 1..Len(w.invoked) }

(* the connections that hold the listener of call d *)
ListenedOn(w, d) == { s \in 1..Len(w.conns) : SetHas(w.conns[s].handlers, DispatchHandler(d)) }

(* C23: for a pending call whose Request Frame was not sent: an error event of  *)
(* its transport rejects it with the connection-failed error; once its          *)
(* transport is closing or closed, the pending re-check rejects it with the     *)
(* connection-failed error that names the state; either way its listener is on  *)
(* no connection and no frame was sent; and no frame is sent after such a       *)
(* rejection.                                                                   *)
C23_TransportFailureRejects ==
  /\ \A d \in 1..Len(disp) :
       (disp[d].pc = "running" /\ ~disp[d].isResolved /\ disp[d].sent = 0) =>
         /\ CanWsError(disp[d].session) =>
              LET w == errorEvent(World, disp[d].session)
              IN /\ w.disp[d].outcome = "rejected"
                 /\ w.disp[d].error = ConnectionError
                 /\ w.disp[d].sent = 0
                 /\ ListenedOn(w, d) = {}
         /\ (pendingClose = 0 /\ conns[disp[d].session].readyState \in {CLOSING, CLOSED}) =>
              /\ CanRetry(d)
              /\ LET w == checkAndSend([World EXCEPT !.disp[d].retryTimers = @ - 1], d)
                 IN /\ w.disp[d].outcome = "rejected"
                    /\ w.disp[d].error = StateError(conns[disp[d].session].readyState)
                    /\ w.disp[d].sent = 0
                    /\ ListenedOn(w, d) = {}
  /\ \A d \in 1..Len(disp) :
       (disp[d].sent > 0 /\ disp[d].atSend.settled) => disp[d].error \in TimeoutErrors

(* close(tabId) made the transport closing before it opened, and the re-check   *)
(* rejected the call                                                            *)
C23_Witness ==
  \E d \in 1..Len(disp) :
    /\ disp[d].outcome = "rejected"
    /\ disp[d].error = StateError(CLOSING)
    /\ disp[d].sent = 0

(* C25: in a tab that has sessionStorage, all calls without a sessionId, before *)
(* and after page reloads, got one and the same identifier: the stored value is *)
(* set by the first call and never changes, the next call returns it whatever   *)
(* the clock and the random source give, and every call and every connection    *)
(* of the page carries it.                                                      *)
C25_PersistentSessionId ==
  browser.available =>
    /\ Cardinality(browser.used) <= 1
    /\ browser.calls > 0 => browser.used = {browser.sessionStorage}
    /\ browser.calls = 0 => browser.sessionStorage = ""
    /\ \A draw \in Draws :
         browser.sessionStorage # "" =>
           /\ getPersistentSessionId(World, draw).browser.returned = browser.sessionStorage
           /\ getPersistentSessionId(World, draw).browser.sessionStorage = browser.sessionStorage
    /\ \A d \in 1..Len(disp) : disp[d].sessionId = browser.sessionStorage
    /\ \A s \in 1..Len(conns) : conns[s].sessionId = browser.sessionStorage

(* a call was made, the page reloaded, and the call made after that runs on a   *)
(* connection that is open                                                      *)
C25_Witness ==
  /\ browser.available
  /\ browser.loads = 1
  /\ browser.calls >= 2
  /\ \E d \in 1..Len(disp) :
       disp[d].pc = "running" /\ conns[disp[d].session].readyState = OPEN

(* C34: no Request Frame of a call was passed to ws.send after the call was     *)
(* rejected, and none would be by the open event of its connection or by its    *)
(* pending re-check.                                                            *)
C34_NoFrameAfterRejection ==
  \A d \in 1..Len(disp) :
    /\ disp[d].sent > 0 => ~disp[d].atSend.settled
    /\ (disp[d].pc = "running" /\ disp[d].outcome = "rejected") =>
         /\ CanWsOpen(disp[d].session) =>
              openEvent(World, disp[d].session).disp[d].sent = disp[d].sent
         /\ CanRetry(d) =>
              checkAndSend([World EXCEPT !.disp[d].retryTimers = @ - 1], d).disp[d].sent
                = disp[d].sent

(* C35: a call that is pending on a connection whose transport has closed is    *)
(* not settled by any frame that arrives on another connection.                 *)
C35_ClosedCallNotSettledByLaterFrame ==
  \A d \in 1..Len(disp) :
    (/\ disp[d].pc = "running"
     /\ ~disp[d].isResolved
     /\ conns[disp[d].session].readyState = CLOSED) =>
      \A s \in 1..Len(conns), frame \in Frames :
        CanWsMessage(s) => ~messageEvent(World, s, frame).disp[d].isResolved

(* the calls that wait for frames: running, not settled, transport not closed *)
Waiting == { d \in 1..Len(disp) :
               /\ disp[d].pc = "running"
               /\ ~disp[d].isResolved
               /\ conns[disp[d].session].readyState # CLOSED }

(* the claude-output events among the UI events of a step *)
Outputs(w) == { j \in 1..Len(w.emitted) : w.emitted[j].event = "claude-output" }

(* C36: when the calls of a tab follow one another (at most one waits for       *)
(* frames, the earlier ones are settled or their connection has closed), an     *)
(* output frame produces at most one claude-output event, and exactly one when  *)
(* it arrives on the connection of the call that waits.                         *)
C36_OneOutputEvent ==
  Cardinality(Waiting) <= 1 =>
    \A s \in 1..Len(conns), frame \in Frames :
      (CanWsMessage(s) /\ frame.valid /\ frame.msg # Null /\ frame.msg.type = "output") =>
        /\ Cardinality(Outputs(messageEvent(World, s, frame))) <= 1
        /\ (\E d \in Waiting : disp[d].session = s /\ disp[d].sent > 0) =>
             Cardinality(Outputs(messageEvent(World, s, frame))) = 1

(* C37: a call whose frame was sent and whose connection closed while it was    *)
(* pending is rejected at some later time.                                      *)
C37_ClosedCallRejects ==
  \A d \in 1..MaxDispatch :
    (IF d <= Len(disp)
       THEN /\ disp[d].sent > 0
            /\ disp[d].outcome = "pending"
            /\ conns[disp[d].session].readyState = CLOSED
       ELSE FALSE)
      ~> (IF d <= Len(disp) THEN disp[d].outcome = "rejected" ELSE FALSE)

(* C27: every Request Frame was passed to ws.send while the transport was open. *)
C27_SentWhileOpen ==
  \A d \in 1..Len(disp) : disp[d].sent > 0 => disp[d].atSend.readyState = OPEN

(* the frame went out and the call resolved *)
C27_Witness == \E d \in 1..Len(disp) : disp[d].sent = 1 /\ disp[d].outcome = "resolved"

(* C28: once the Request Frame of a call was sent, its send-timeout is disarmed *)
(* and its callback would reject nothing; a call rejected with the timeout      *)
(* error had not sent its frame when it was rejected.                           *)
C28_NoTimeoutAfterSend ==
  \A d \in 1..Len(disp) :
    disp[d].sent > 0 =>
      /\ ~disp[d].sendTimeout
      /\ sendTimeoutCallback(World, d).disp[d].outcome = disp[d].outcome
      /\ sendTimeoutCallback(World, d).disp[d].error = disp[d].error
      /\ disp[d].error \in TimeoutErrors => disp[d].atSend.settled

(* the frame was sent and the call waits for the backend on an open transport *)
C28_Witness ==
  \E d \in 1..Len(disp) :
    /\ disp[d].sent = 1
    /\ disp[d].outcome = "pending"
    /\ conns[disp[d].session].readyState = OPEN

(* C29: the listener of a call is registered on the connection the call sends   *)
(* on, and it was registered there when the Request Frame of the pending call   *)
(* was passed to ws.send; so every server frame (a JSON object) that arrives on *)
(* that connection while the call is pending is delivered to the listener.      *)
C29_ListenerBeforeSend ==
  \A d \in 1..Len(disp) :
    /\ disp[d].pc = "running" => disp[d].regSession = disp[d].session
    /\ (disp[d].sent > 0 /\ ~disp[d].atSend.settled) => disp[d].atSend.listening
    /\ (disp[d].sent > 0 /\ ~disp[d].isResolved) =>
         \A frame \in Frames :
           (CanWsMessage(disp[d].session) /\ frame.valid /\ frame.msg # Null) =>
             DispatchHandler(d) \in Invoked(messageEvent(World, disp[d].session, frame))

(* the frame was sent with the listener in place, the retry timers have run out *)
(* and the next frame of the backend can arrive                                 *)
C29_Witness ==
  \E d \in 1..Len(disp) :
    /\ disp[d].sent = 1
    /\ ~disp[d].isResolved
    /\ disp[d].atSend.listening
    /\ disp[d].retryTimers = 0
    /\ CanWsMessage(disp[d].session)

----------------------------------------------------------------------------
(* Properties of frame routing and of the handler sets *)


(* C12: when a frame is delivered on a connection, every handler registered on  *)
(* that connection is invoked with it, also when one of the handlers throws.    *)
C12_ThrowingListenerIsolated ==
  \A s \in 1..Len(conns), frame \in Frames :
    (CanWsMessage(s) /\ frame.valid) =>
      LET w == messageEvent(World, s, frame)
      IN \A i \in 1..Len(conns[s].handlers) : conns[s].handlers[i] \in Invoked(w)

(* C13: a handler whose unregister function was called is not invoked for any   *)
(* later frame of its tab, on whichever connection of the tab the frame comes.  *)
C13_UnregisteredNotInvoked ==
  \A u \in unreg :
    u.called =>
      \A s \in 1..Len(conns), frame \in Frames :
        (CanWsMessage(s) /\ conns[s].tab = u.tab) =>
          u.handler \notin Invoked(messageEvent(World, s, frame))

(* the position of a handler in the order of the registerHandler calls *)
RegSeq(handler) == (CHOOSE u \in unreg : u.handler = handler).seq

(* C30: a message event, handled to its end before the next one, calls the      *)
(* handlers of its connection each at most once and in the order of their       *)
(* registration; the handlers of every connection, replacements included, are   *)
(* held in the order of their registration.                                     *)
C30_RegistrationOrder ==
  /\ \A s \in 1..Len(conns) :
       \A i, j \in 1..Len(conns[s].handlers) :
         i < j => RegSeq(conns[s].handlers[i]) < RegSeq(conns[s].handlers[j])
  /\ \A s \in 1..Len(conns), frame \in Frames :
       CanWsMessage(s) =>
         LET calls == messageEvent(World, s, frame).invoked
         IN \A i, j \in 1..Len(calls) :
              i < j => RegSeq(calls[i].handler) < RegSeq(calls[j].handler)

(* a replacement connection holds both migrated handlers, the one registered    *)
(* first ahead of the other, and a frame is delivered to both                   *)
C30_Witness ==
  \E s \in 2..Len(conns) :
    /\ conns[s].handlers = << Observer(2), Observer(1) >>
    /\ \A u \in unreg : u.session < s
    /\ conns[s].readyState = OPEN
    /\ \E frame \in Frames : Len(messageEvent(World, s, frame).invoked) = 2

(* C14: close(tabId) asks the transport of the tab's entry to close with code   *)
(* 1000, empties the handler set of that connection and removes the entry; the  *)
(* entries and connections of other tabs are as before, and with no entry for   *)
(* tabId nothing changes.                                                       *)
C14_CloseTab ==
  \A t \in AllTabIds :
    LET s == registry[t]
        w == close(World, t)
    IN IF s = 0
         THEN w = World
         ELSE /\ w.registry = [registry EXCEPT ![t] = 0]
              /\ w.conns[s].handlers = <<>>
              /\ IF conns[s].readyState \in {CONNECTING, OPEN}
                   THEN w.conns[s].readyState = CLOSING /\ w.conns[s].closeCode = 1000
                   ELSE w.conns[s].readyState = conns[s].readyState
              /\ Len(w.conns) = Len(conns)
              /\ \A o \in 1..Len(conns) : o # s => w.conns[o] = conns[o]
              /\ w.timers = timers /\ w.reconnectAttempts = reconnectAttempts

(* close(tabId) closed a connection that held a handler while another tab has   *)
(* an entry with a handler                                                      *)
C14_Witness ==
  \E u \in unreg :
    /\ conns[u.session].readyState = CLOSING
    /\ conns[u.session].closeCode = 1000
    /\ conns[u.session].handlers = <<>>
    /\ registry[u.tab] = 0
    /\ \E t \in AllTabIds \ {u.tab} : registry[t] # 0 /\ conns[registry[t]].handlers # <<>>

(* C15: closeAll() asks the transport of every registry entry to close with     *)
(* code 1000 and leaves the registry without entries.                           *)
C15_CloseAll ==
  LET w == closeAll(World)
  IN /\ \A t \in AllTabIds : w.registry[t] = 0
     /\ Len(w.conns) = Len(conns)
     /\ \A t \in AllTabIds :
          (registry[t] # 0 /\ conns[registry[t]].readyState \in {CONNECTING, OPEN}) =>
            /\ w.conns[registry[t]].readyState = CLOSING
            /\ w.conns[registry[t]].closeCode = 1000

(* closeAll() closed the connections of two tabs, which keep their handlers *)
C15_Witness ==
  /\ \A t \in AllTabIds : registry[t] = 0
  /\ \E s1, s2 \in 1..Len(conns) :
       /\ conns[s1].tab # conns[s2].tab
       /\ \A s \in {s1, s2} : /\ conns[s].readyState = CLOSING
                              /\ conns[s].closeCode = 1000
                              /\ conns[s].handlers # <<>>

(* C17: a frame received on a connection of one tab invokes only handlers that  *)
(* were registered for that tab.                                                *)
C17_TabIsolation ==
  \A s \in 1..Len(conns), frame \in Frames :
    CanWsMessage(s) =>
      \A h \in Invoked(messageEvent(World, s, frame)) :
        \E u \in unreg : u.handler = h /\ u.tab = conns[s].tab

(* two tabs have open connections, each with a handler *)
C17_Witness ==
  \E s1, s2 \in 1..Len(conns) :
    /\ conns[s1].tab # conns[s2].tab
    /\ \A s \in {s1, s2} : conns[s].readyState = OPEN /\ conns[s].handlers # <<>>

(* C31: a frame that is not valid JSON changes nothing: no handler is called,   *)
(* connections, handler sets, registry and calls are as they were, and a valid  *)
(* frame that follows is handled as it would have been without it.              *)
C31_InvalidFrameDropped ==
  \A s \in 1..Len(conns), frame \in Frames :
    (CanWsMessage(s) /\ ~frame.valid) =>
      LET w == messageEvent(World, s, frame)
      IN /\ w.invoked = <<>>
         /\ w.emitted = <<>>
         /\ w = World
         /\ \A next \in Frames :
              next.valid => messageEvent(w, s, next) = messageEvent(World, s, next)

(* a call that sent its frame is pending with its listener on an open           *)
(* connection, where an invalid frame can arrive                                *)
C31_Witness ==
  \E d \in 1..Len(disp), frame \in Frames :
    /\ ~frame.valid
    /\ disp[d].outcome = "pending"
    /\ disp[d].sent = 1
    /\ CanWsMessage(disp[d].session)
    /\ SetHas(conns[disp[d].session].handlers, DispatchHandler(d))

----------------------------------------------------------------------------
(* Properties of send *)

(* what a check of send call k must have done, given the state of its transport *)
SendChecked(w, k, readyState) ==
  IF readyState = OPEN
    THEN w.sends[k].outcome = "resolved" /\ w.sends[k].transmitted = 1
  ELSE IF readyState = CONNECTING
    THEN w.sends[k].outcome = "pending" /\ w.sends[k].transmitted = 0 /\ w.sends[k].timer
  ELSE /\ w.sends[k].outcome = "rejected"
       /\ w.sends[k].error = ConnectionError
       /\ w.sends[k].transmitted = 0

(* C16: send transmits the message once and resolves when it finds the          *)
(* transport open, at the call or at a poll; it rejects with the connection-    *)
(* failed error, transmitting nothing, when it finds the transport neither open *)
(* nor connecting; it keeps polling while the transport is connecting; and no   *)
(* call both transmits and rejects.                                             *)
C16_SendOutcome ==
  /\ \A k \in 1..Len(sends) :
       /\ sends[k].transmitted <= 1
       /\ (sends[k].outcome = "resolved") = (sends[k].transmitted = 1)
       /\ sends[k].outcome = "rejected" => sends[k].error = ConnectionError
       /\ sends[k].outcome = "pending" => sends[k].timer
  /\ \A k \in 1..Len(sends) :
       CanSendPoll(k) =>
         SendChecked(checkOpen([World EXCEPT !.sends[k].timer = FALSE], k), k,
                     conns[sends[k].session].readyState)
  /\ \A t \in TabIds :
       LET w == send(World, t)
           k == Len(w.sends)
       IN /\ k = Len(sends) + 1
          /\ w.sends[k].session = w.registry[t]
          /\ SendChecked(w, k, w.conns[w.sends[k].session].readyState)

(* one call resolved at a poll, another call was rejected at a poll *)
C16_Witness ==
  \E k1, k2 \in 1..Len(sends) :
    /\ sends[k1].polled /\ sends[k1].outcome = "resolved"
    /\ sends[k2].polled /\ sends[k2].outcome = "rejected"

----------------------------------------------------------------------------
(* Properties of the Network Status manager *)

(* the number of calls of a callback in a step *)
Calls(w, callback) ==
  Cardinality({ j \in 1..Len(w.notified) : w.notified[j].callback = callback })

(* C18: setStatus with the current status changes nothing and calls no          *)
(* callback, so of two consecutive setStatus calls with the same status the     *)
(* second changes nothing and each callback is called at most once.             *)
C18_SetStatusNoOp ==
  /\ setStatus(World, net.currentStatus) = World
  /\ \A status \in NetworkStatus :
       LET w1 == setStatus(World, status)
           w2 == setStatus(w1, status)
       IN /\ w2 = w1
          /\ \A callback \in CallbackIds : Calls(w2, callback) <= 1

(* the status was changed while a callback is subscribed *)
C18_Witness == net.listeners # <<>> /\ net.clock > 0 /\ net.currentStatus = "error"

(* C19: the history holds at most 50 entries, and they are the most recent      *)
(* status changes in order: a push on a full history drops the oldest entry.    *)
C19_HistoryCapped ==
  LET history == net.statusHistory
  IN /\ Len(history) <= 50
     /\ Len(history) = IF net.clock < 50 THEN net.clock ELSE 50
     /\ \A i \in 1..Len(history) : history[i].timestamp = net.clock - Len(history) + i
     /\ \A status \in NetworkStatus \ {net.currentStatus} :
          setStatus(World, status).net.statusHistory =
            Append(IF Len(history) < 50 THEN history ELSE Tail(history),
                   [status |-> status, timestamp |-> net.clock + 1])

(* the history is full and its first entries were dropped *)
C19_Witness ==
  Len(net.statusHistory) = 50 /\ net.statusHistory[1].timestamp > 1

(* C39: the last entry of a non-empty history carries the current status, and   *)
(* no two neighbours in the history carry the same status.                      *)
C39_HistoryFollowsStatus ==
  LET history == net.statusHistory
  IN /\ history # <<>> => history[Len(history)].status = net.currentStatus
     /\ \A i \in 1..(Len(history) - 1) : history[i].status # history[i + 1].status

(* the history overflowed and the current status is the one set last *)
C39_Witness ==
  /\ Len(net.statusHistory) = 50
  /\ net.clock > 50
  /\ net.currentStatus = "connected"
  /\ net.statusHistory[49].status = "error"

(* C20: subscribe(cb) calls cb once with the current status; every change of    *)
(* status calls once, with the new status, each callback whose unsubscribe      *)
(* function was not called, and no other callback; a setStatus that changes     *)
(* nothing calls none.                                                          *)
C20_Subscription ==
  /\ \A callback \in CallbackIds \ Subscribed :
       subscribe(World, callback).notified =
         << [callback |-> callback, status |-> net.currentStatus] >>
  /\ \A status \in NetworkStatus :
       LET w == setStatus(World, status)
       IN /\ \A callback \in CallbackIds :
               Calls(w, callback) =
                 IF status # net.currentStatus /\ callback \in Subscribed THEN 1 ELSE 0
          /\ \A j \in 1..Len(w.notified) : w.notified[j].status = status

(* after status changes, one callback was unsubscribed and another is subscribed *)
C20_Witness ==
  /\ net.clock > 1
  /\ \E u \in unsub : u.called
  /\ Subscribed # {}

(* C21: the response of a liveness probe changes Network Status by this table   *)
(* and in no other case: ok moves disconnected or error to connected, a         *)
(* response that is not ok moves disconnected to error, a failed fetch moves    *)
(* connected or connecting to disconnected.                                     *)
C21_ProbeTable ==
  \A outcome \in ProbeOutcomes :
    LET current == net.currentStatus
        after == performHealthCheck(World, outcome).net.currentStatus
    IN after =
         IF outcome = "ok" /\ current \in {"disconnected", "error"} THEN "connected"
         ELSE IF outcome = "notok" /\ current = "disconnected" THEN "error"
         ELSE IF outcome = "failed" /\ current \in {"connected", "connecting"}
           THEN "disconnected"
         ELSE current

(* probes made the status error, then connected, then disconnected; later the   *)
(* dispatcher reported connecting                                               *)
C21_Witness ==
  /\ Len(net.statusHistory) >= 4
  /\ net.statusHistory[1].status = "error"
  /\ net.statusHistory[2].status = "connected"
  /\ net.statusHistory[3].status = "disconnected"
  /\ net.currentStatus = "connecting"

(* C22: at most one interval timer is active, and it is the one the manager     *)
(* holds; startHealthCheck while running creates no timer and issues no probe;  *)
(* after stopHealthCheck no timer is active and isHealthCheckRunning is false,  *)
(* and a second stopHealthCheck changes nothing.                                *)
C22_OneProbeTimer ==
  /\ Cardinality(health.intervals) <= 1
  /\ health.intervals = IF isHealthCheckRunning(World)
                          THEN {net.healthCheckInterval} ELSE {}
  /\ isHealthCheckRunning(World) => startHealthCheck(World) = World
  /\ LET w == stopHealthCheck(World)
     IN /\ w.health.intervals = {}
        /\ ~isHealthCheckRunning(w)
        /\ stopHealthCheck(w) = w

(* the health check was started, stopped and started again *)
C22_Witness == health.created = 2 /\ isHealthCheckRunning(World)

(* C40: while the health check is stopped, a probe that settles leaves the      *)
(* Network Status manager as it is, whatever the outcome of its fetch.          *)
C40_StoppedProbeChangesNothing ==
  (~isHealthCheckRunning(World) /\ CanProbeSettle) =>
    \A outcome \in ProbeOutcomes :
      performHealthCheck([World EXCEPT !.health.inflight = @ - 1], outcome).net = net

====
